---- MODULE Spec2Model ----
(***************************************************************************)
(* Model of OVRLipSyncDecode.cpp: the frame windowing loop of              *)
(* UOVRLipSyncDecode::GenerateLipSyncSequenceRuntime and the WAV parser /  *)
(* normalizer of UOVRLipSyncDecode::Base64ToSoundWave.                     *)
(*                                                                         *)
(* Indices are 0-based as in the C++ source; TLA+ sequences are 1-based,   *)
(* so element i of a C++ array is element i+1 of the sequence modelling it.*)
(***************************************************************************)
EXTENDS Integers, Sequences, FiniteSets, TLC

(***************************************************************************)
(* Bounds of the model.                                                    *)
(***************************************************************************)
\* largest RawPCMDataSize (bytes) of the small sound waves
MaxPCMBytes == 13
\* engine calls after which the model stops following a run
MaxCalls == 106

(***************************************************************************)
(* Arithmetic helpers.                                                     *)
(***************************************************************************)
RECURSIVE Pow2(_)
Pow2(n) == IF n <= 0 THEN 1 ELSE 2 * Pow2(n - 1)

RECURSIVE BitLen(_)
\* number of bits of a natural number (0 for 0)
BitLen(n) == IF n <= 0 THEN 0 ELSE 1 + BitLen(n \div 2)

(***************************************************************************)
(* IEEE-754 binary32 arithmetic, as far as the source uses it.  A float    *)
(* has a 24-bit significand and every operation rounds its exact result to *)
(* nearest, ties to even.                                                  *)
(***************************************************************************)
RECURSIVE F32DivBits(_, _, _, _)
\* binary long division: extends the quotient acc by fraction bits until it
\* has 24 significant bits; returns <<acc, remainder, number of fraction bits>>
F32DivBits(acc, r, den, f) ==
    IF acc >= 8388608 \/ (acc = 0 /\ r = 0)
    THEN <<acc, r, f>>
    ELSE LET bit == IF 2 * r >= den THEN 1 ELSE 0
         IN  F32DivBits(2 * acc + bit, 2 * r - bit * den, den, f + 1)

\* the float p / den for naturals p < 2^24 and den > 0, as <<m, f>> with
\* value m * 2^-f: the quotient rounded to 24 significant bits
F32Div(p, den) ==
    LET t == F32DivBits(p \div den, p % den, den, 0)
        up == IF 2 * t[2] > den \/ (2 * t[2] = den /\ t[1] % 2 = 1) THEN 1 ELSE 0
    IN  <<t[1] + up, t[3]>>

\* (int)(x * ch) for a float x = <<m, f>> and ch in {0, 1, 2} (the product
\* with ch is then exact): scaled, then truncated toward zero by the cast
F32MulTrunc(x, ch) == IF x[2] > 25 THEN 0 ELSE (x[1] * ch) \div Pow2(x[2])

\* Compute LipSync sequence frames at 100 times a second rate
LipSyncSequenceUpateFrequency == 100

\* 1.0f / LipSyncSequenceUpateFrequency: the float 10737418 * 2^-30
\* (0x3C23D70A), a little below 0.01
LipSyncSequenceDuration == F32Div(1, LipSyncSequenceUpateFrequency)

\* static_cast<int>(rate * x) for an integer rate in 0 .. 2^24-1 (exactly
\* representable as a float) and a float x = <<m, f>> below 1 with a 24-bit
\* m.  The exact product is kept in two 24-bit limbs (hi, lo), rounded to 24
\* significant bits, then truncated toward zero by the cast.
F32MulRateTrunc(rate, x) ==
    LET a == rate \div 4096
        b == rate % 4096
        c == x[1] \div 4096
        d == x[1] % 4096
        mid == a * d + b * c
        losum == b * d + (mid % 4096) * 4096
        lo == losum % 16777216
        hi == a * c + (mid \div 4096) + (losum \div 16777216)
        nb == IF hi > 0 THEN 24 + BitLen(hi) ELSE BitLen(lo)
        s == nb - 24
    IN  IF s <= 0
        THEN 0
        ELSE LET mant == hi * Pow2(24 - s) + (lo \div Pow2(s))
                 rem == lo % Pow2(s)
                 half == Pow2(s - 1)
                 up == IF rem > half \/ (rem = half /\ mant % 2 = 1) THEN 1 ELSE 0
             IN  (mant + up) \div Pow2(x[2] - s)

(***************************************************************************)
(* GenerateLipSyncSequenceRuntime: inputs.                                 *)
(***************************************************************************)
\* a null USoundWave*
NullWave == [isNull |-> TRUE]

\* delays (ms) the engine may report from any ProcessFrame call
Delays == {0, 10, 25}

\* sample rates of the small sound waves: below 100 Hz, exactly 100 Hz,
\* and rates that are not a multiple of 100
SmallRates == {50, 100, 160, 250}

SmallWaves ==
    [isNull : {FALSE}, NumChannels : 0 .. 3, SampleRate : SmallRates,
     RawPCMData : BOOLEAN, RawPCMDataSize : 0 .. MaxPCMBytes]

\* sound waves at real sample rates: one second of mono 16 kHz, two chunks
\* of mono 22.05 kHz, two chunks of stereo 44.1 kHz
RealWaves ==
    { [isNull |-> FALSE, NumChannels |-> 1, SampleRate |-> 16000,
       RawPCMData |-> TRUE, RawPCMDataSize |-> 32000],
      [isNull |-> FALSE, NumChannels |-> 1, SampleRate |-> 22050,
       RawPCMData |-> TRUE, RawPCMDataSize |-> 880],
      [isNull |-> FALSE, NumChannels |-> 2, SampleRate |-> 44100,
       RawPCMData |-> TRUE, RawPCMDataSize |-> 3528] }

SoundWaves == SmallWaves \cup RealWaves \cup {NullWave}

(***************************************************************************)
(* GenerateLipSyncSequenceRuntime: helpers.                                *)
(***************************************************************************)
\* the 16-bit sample at index i of RawPCMData; the samples of the input are
\* all nonzero and pairwise different, so a misplaced or stale sample shows.
\* An index at or past the end is a read outside the buffer.
PCMData(i, size) == IF 0 <= i /\ i < size THEN i + 1 ELSE -1

DecompressSoundWave(w) ==
    IF w.isNull THEN FALSE
    ELSE IF w.RawPCMData /\ w.RawPCMDataSize > 0 THEN TRUE
    ELSE FALSE

ChunkSizeSamplesRounded(rate) == (rate + 50) \div LipSyncSequenceUpateFrequency

\* auto ChunkSizeSamples = static_cast<int>(SampleRate * LipSyncSequenceDuration)
ChunkSizeSamplesOf(rate) == F32MulRateTrunc(rate, LipSyncSequenceDuration)

\* int FrameOffset = (int)(FrameDelayInMs * SampleRate / 1000 * NumChannels),
\* in float arithmetic; delay * rate is below 2^24 here, so that product is exact
FrameOffsetOf(delay, rate, channels) == F32MulTrunc(F32Div(delay * rate, 1000), channels)

LoopCondNoDelay(o, size, frameOffset) == o < size

\* offs < PCMDataSize + FrameOffset
LoopCond(o, size, frameOffset) == o < size + frameOffset

AcceptsStrict(o, frameOffset) == o > frameOffset

\* if (offs >= FrameOffset)
Accepts(o, frameOffset) == o >= frameOffset

\* samples.SetNumZeroed(ChunkSize)
Zeroed(n) == [j \in 1 .. n |-> 0]

\* ProcessFrame(Data, ChunkSizeSamples, ..., NumChannels > 1): the engine is
\* given the number of samples per channel and a stereo flag, and reads that
\* many mono samples or interleaved stereo pairs from Data.  For 1 and 2
\* channels this is ChunkSize samples; for 0 channels it is ChunkSizeSamples
\* samples of a chunk that holds none.
EngineSamples(chunkSizeSamples, channels) ==
    chunkSizeSamples * (IF channels > 1 THEN 2 ELSE 1)

\* what the engine reads through PCMData + offs
DirectChunk(o, n, size) == [j \in 1 .. n |-> PCMData(o + j - 1, size)]

\* what the engine reads through samples.GetData(); a position past the end
\* of the scratch buffer is a read outside it
ScratchChunk(buf, n) == [j \in 1 .. n |-> IF j <= Len(buf) THEN buf[j] ELSE -1]

\* the scratch buffer after the Memcpy / Memset of the tail branch
TailChunk(buf, o, remaining, chunk, size) ==
    IF remaining > 0
    THEN [j \in 1 .. chunk |-> IF j <= remaining THEN PCMData(o + j - 1, size) ELSE 0]
    ELSE [j \in 1 .. chunk |-> 0]

(***************************************************************************)
(* Base64ToSoundWave: bytes, 32-bit words and WAV buffers.                 *)
(***************************************************************************)
\* largest payload (bytes) of the data chunk of a generated WAV buffer
MaxDataBytes == 6

Max(a, b) == IF a >= b THEN a ELSE b

\* little-endian encodings, for values below 2^31
LE16(v) == <<v % 256, (v \div 256) % 256>>
LE32(v) == <<v % 256, (v \div 256) % 256, (v \div 65536) % 256, v \div 16777216>>

TagRIFF == <<82, 73, 70, 70>>
TagWAVE == <<87, 65, 86, 69>>
TagFmt == <<102, 109, 116, 32>>
TagData == <<100, 97, 116, 97>>
TagLIST == <<76, 73, 83, 84>>

\* DecodedData[i], for an index inside the buffer
ByteAt(buf, i) == buf[i + 1]

\* a uint32 is kept as two 16-bit limbs <<hi, lo>>, so that 2^32 - 1 and
\* the wrap-around of uint32 addition are exact
U32OfInt(n) == <<n \div 65536, n % 65536>>

\* *reinterpret_cast<uint32*>(&DecodedData[pos]), little-endian
U32At(buf, pos) ==
    <<ByteAt(buf, pos + 2) + 256 * ByteAt(buf, pos + 3),
      ByteAt(buf, pos) + 256 * ByteAt(buf, pos + 1)>>

\* n + u in uint32 arithmetic (modulo 2^32), n a non-negative int32
U32AddInt(n, u) ==
    LET slo == (n % 65536) + u[2]
    IN  <<((n \div 65536) + u[1] + (slo \div 65536)) % 65536, slo % 65536>>

U32Gt(u, v) == u[1] > v[1] \/ (u[1] = v[1] /\ u[2] > v[2])

\* the value of a uint32 below 2^31 as an integer
U32ToInt(u) == u[1] * 65536 + u[2]

\* n + u > m as a sum of integers, without wrap-around
SumExceeds(n, u, m) ==
    LET slo == (n % 65536) + u[2]
        shi == (n \div 65536) + u[1] + (slo \div 65536)
    IN  shi > m \div 65536 \/ (shi = m \div 65536 /\ slo % 65536 > m % 65536)

\* if (DataStart + DataSize > (uint32)DecodedData.Num())
DataExceedsBuffer(start, size, num) == U32Gt(U32AddInt(start, size), U32OfInt(num))

\* payload byte j (1-based) of a generated chunk
PayloadByte(j) == (j * 77 + 13) % 256
Payload(n) == [j \in 1 .. n |-> PayloadByte(j)]

\* a 16-byte fmt chunk
FmtChunk(format, channels, rate, bits) ==
    TagFmt \o LE32(16) \o LE16(format) \o LE16(channels) \o LE32(rate)
           \o LE32((rate * channels * bits) \div 8) \o LE16((channels * bits) \div 8)
           \o LE16(bits)

ListChunk(payload) == TagLIST \o LE32(Len(payload)) \o payload

DataChunk(sizeField, payload) == TagData \o sizeField \o payload

Riff(chunks) == TagRIFF \o LE32(4 + Len(chunks)) \o TagWAVE \o chunks

\* the fmt fields of the generated buffers: PCM with 0 .. 3 channels at each
\* accepted bit depth, a non-PCM format code, an unsupported bit depth
FmtParams ==
    [format : {1}, channels : 0 .. 3, bits : {8, 16, 24, 32}]
      \cup {[format |-> 3, channels |-> 1, bits |-> 16],
            [format |-> 1, channels |-> 2, bits |-> 12]}

WavRates == {100, 200}

\* the size field of the data chunk: the payload length, one more than the
\* payload length, or 2^32 - 1
DataSizeField(kind, n) ==
    CASE kind = "exact" -> LE32(n)
      [] kind = "plus1" -> LE32(n + 1)
      [] kind = "max" -> <<255, 255, 255, 255>>

\* chunk layouts of the generated buffers
\*   plain     fmt, data
\*   list      fmt, LIST (text payload), data
\*   listData  fmt, LIST whose payload spells a data chunk header, data
\*   listFmt   LIST whose payload spells a fmt chunk, fmt, data
WavLayout(layout, f, rate, sizeKind, n) ==
    LET fmt == FmtChunk(f.format, f.channels, rate, f.bits)
        data == DataChunk(DataSizeField(sizeKind, n), Payload(n))
    IN  CASE layout = "plain" -> Riff(fmt \o data)
          [] layout = "list" -> Riff(fmt \o ListChunk(<<73, 78, 70, 79>>) \o data)
          [] layout = "listData" ->
               Riff(fmt \o ListChunk(TagData \o LE32(2) \o <<7, 9>>) \o data)
          [] layout = "listFmt" ->
               Riff(ListChunk(FmtChunk(1, 2, 200, 8)) \o fmt \o data)

Layouts == {"plain", "list", "listData", "listFmt"}

\* buffers that are cut off or are no WAV at all: 44 bytes ending 5 bytes
\* into a fmt chunk (with and without a data chunk before it), a buffer
\* shorter than 44 bytes, 44 bytes without RIFF, without WAVE, without any
\* chunk tag, and a RIFF/WAVE buffer with a fmt chunk but no data chunk
BrokenBuffers ==
    { Riff(ListChunk(Payload(15)) \o TagFmt \o LE32(16) \o <<1>>),
      Riff(DataChunk(LE32(2), <<7, 9>>) \o ListChunk(Payload(5)) \o TagFmt
             \o LE32(16) \o <<1>>),
      Riff(FmtChunk(1, 1, 100, 16) \o TagData),
      [j \in 1 .. 44 |-> 0],
      TagRIFF \o [j \in 1 .. 40 |-> 0],
      TagRIFF \o LE32(36) \o TagWAVE \o [j \in 1 .. 32 |-> 0],
      Riff(FmtChunk(1, 1, 100, 16) \o ListChunk(Payload(4))) }

\* the (TargetSampleRate, TargetBitrate) arguments used with a buffer whose
\* fmt fields give `channels` channels: none, a target rate of 200 Hz, a
\* target bitrate that asks for 100 Hz; with the buffers' 100 and 200 Hz
\* this resamples by 2, by 1/2 or not at all, ratios for which the float
\* arithmetic of ResampleAudio is exact
TargetsFor(channels) == {<<0, 0>>, <<200, 0>>, <<0, 1600 * Max(channels, 1)>>}

\* one call of Base64ToSoundWave: the Base64String argument (empty, not
\* decodable, or the bytes it decodes to; FBase64::Decode itself is not
\* modelled) and the two target arguments
WavCall(isEmpty, decodes, bytes, target) ==
    [IsEmpty |-> isEmpty, Decodes |-> decodes, Bytes |-> bytes,
     TargetSampleRate |-> target[1], TargetBitrate |-> target[2]]

StructuredCallsOf(params) ==
    UNION { { WavCall(FALSE, TRUE, WavLayout(l, f, r, k, n), t) :
                r \in WavRates, k \in {"exact", "plus1", "max"},
                n \in 0 .. MaxDataBytes,
                t \in TargetsFor(IF l = "listFmt" THEN 2 ELSE f.channels) } :
            l \in Layouts, f \in params }

\* calls with a buffer made of whole chunks
StructuredCalls == StructuredCallsOf(FmtParams)

\* calls with a buffer made of whole chunks whose fmt chunk is PCM, mono or
\* stereo, at an accepted bit depth
AcceptedCalls ==
    StructuredCallsOf([format : {1}, channels : {1, 2}, bits : {8, 16, 24, 32}])

WavCalls ==
    { WavCall(TRUE, FALSE, <<>>, <<0, 0>>),
      WavCall(FALSE, FALSE, <<>>, <<0, 0>>),
      WavCall(FALSE, TRUE, <<>>, <<0, 0>>) }
      \cup StructuredCalls
      \cup { WavCall(FALSE, TRUE, b, <<0, 0>>) : b \in BrokenBuffers }

NoCall == WavCall(TRUE, FALSE, <<>>, <<0, 0>>)

(***************************************************************************)
(* Base64ToSoundWave: helpers.                                             *)
(***************************************************************************)
TagAt(buf, pos, tag) == \A k \in 0 .. 3 : ByteAt(buf, pos + k) = tag[k + 1]

RECURSIVE ScanFor(_, _, _)
\* while (Pos < DecodedData.Num() - 8) { if (tag at Pos) break; Pos++; }
ScanFor(buf, tag, pos) ==
    IF pos < Len(buf) - 8 /\ ~TagAt(buf, pos, tag)
    THEN ScanFor(buf, tag, pos + 1)
    ELSE pos

\* the highest index the scan from 12 to pos read (the && chain of the
\* comparison stops at the first byte that differs)
ScanMaxRead(buf, tag, pos) ==
    LET last == IF pos < Len(buf) - 8 THEN pos ELSE pos - 1
        Reach(q) == IF ByteAt(buf, q) # tag[1] THEN q
                    ELSE IF ByteAt(buf, q + 1) # tag[2] THEN q + 1
                    ELSE IF ByteAt(buf, q + 2) # tag[3] THEN q + 2
                    ELSE q + 3
    IN  IF last < 12 THEN -1
        ELSE CHOOSE m \in {Reach(q) : q \in 12 .. last} :
                \A q \in 12 .. last : Reach(q) <= m

\* the byte indices the four fmt fields are read from
FmtFieldIdx(pos) ==
    {pos + 8, pos + 9, pos + 10, pos + 11, pos + 12, pos + 13, pos + 14, pos + 15,
     pos + 22, pos + 23}

\* what a read past the end of the buffer may return
GarbageBytes == {0, 16}

S16(v) == IF v >= 32768 THEN v - 65536 ELSE v

\* the 16-bit samples written by the conversion loops (or the Memcpy)
Normalized(buf, start, bits, n) ==
    [i \in 1 .. n |->
        CASE bits = 16 ->
               S16(ByteAt(buf, start + 2 * (i - 1))
                   + 256 * ByteAt(buf, start + 2 * (i - 1) + 1))
          [] bits = 8 -> (ByteAt(buf, start + (i - 1)) - 128) * 256
          [] bits = 24 ->
               S16(ByteAt(buf, start + 3 * (i - 1) + 1)
                   + 256 * ByteAt(buf, start + 3 * (i - 1) + 2))
          [] bits = 32 ->
               S16(ByteAt(buf, start + 4 * (i - 1) + 2)
                   + 256 * ByteAt(buf, start + 4 * (i - 1) + 3))]

\* bytes the conversion writes into the PCMData16bit allocation
NormalizeWritten(bits, size, n) == IF bits = 16 THEN size ELSE 2 * n

\* bytes of the data chunk the conversion reads
NormalizeRead(bits, size, n) == IF bits = 16 THEN size ELSE n * (bits \div 8)

Clamp(x, lo, hi) == IF x < lo THEN lo ELSE IF x > hi THEN hi ELSE x

\* ResampleAudio for NumChannels > 0; the float expressions are written as
\* the exact quotients they are for the ratios used here (1/2 and 2)
ResampleAudio(src, SourceSamples, SourceSampleRate, TargetSampleRate_, NumChannels_) ==
    IF SourceSampleRate = TargetSampleRate_
    THEN [i \in 1 .. SourceSamples |-> src[i]]
    ELSE LET SourceFrames == SourceSamples \div NumChannels_
             TargetFrames == (SourceFrames * TargetSampleRate_ + SourceSampleRate - 1)
                                \div SourceSampleRate
             TargetSamples == TargetFrames * NumChannels_
         IN  [idx \in 1 .. TargetSamples |->
                LET TargetFrame == (idx - 1) \div NumChannels_
                    Channel == (idx - 1) % NumChannels_
                    num == TargetFrame * SourceSampleRate
                    SourceFrame0 == num \div TargetSampleRate_
                    SourceFrame1 == IF SourceFrame0 + 1 < SourceFrames - 1
                                    THEN SourceFrame0 + 1 ELSE SourceFrames - 1
                    fr == num % TargetSampleRate_
                    Sample0 == src[SourceFrame0 * NumChannels_ + Channel + 1]
                    Sample1 == src[SourceFrame1 * NumChannels_ + Channel + 1]
                IN  Clamp((2 * Sample0 * TargetSampleRate_ + 2 * (Sample1 - Sample0) * fr
                             + TargetSampleRate_) \div (2 * TargetSampleRate_),
                          -32768, 32767)]

(***************************************************************************)
(* State.                                                                  *)
(***************************************************************************)
VARIABLES
    pc,               \* position in the running function
    sw,               \* the SoundWave argument
    NumChannels, SampleRate, PCMDataSize, ChunkSizeSamples, ChunkSize,
    samples,          \* TArray<int16_t> samples, the scratch chunk
    Visemes, LaughterScore, FrameDelayInMs,
    FrameOffset, offs,
    Sequence,         \* the frames added to the UOVRLipSyncFrameSequence
    calls,            \* number of ProcessFrame calls made so far
    lastFed,          \* the samples handed to the last ProcessFrame call
    lastRead,         \* indices of RawPCMData read for the last call
    primeDelay        \* the delay reported by the priming call

genVars == <<sw, NumChannels, SampleRate, PCMDataSize, ChunkSizeSamples, ChunkSize,
             samples, Visemes, LaughterScore, FrameDelayInMs, FrameOffset, offs,
             Sequence, calls, lastFed, lastRead, primeDelay>>

VARIABLES
    call,             \* the arguments of Base64ToSoundWave
    DecodedData,
    FmtChunkPos, AudioFormat, WavNumChannels, WavSampleRate, BitsPerSample,
    DataChunkPos, DataSize, DataStart,
    FinalSampleRate,
    NumSamples, PCMDataSize16bit, PCMData16bit,
    normWritten,      \* bytes written into the PCMData16bit allocation
    normRead,         \* bytes read from DataStart on
    FinalNumSamples, FinalPCMData,
    SoundWave,        \* the returned object, NullWave for nullptr
    error,            \* the error that was logged, if any
    maxRead           \* the highest index of DecodedData read so far

wavFmt == <<FmtChunkPos, AudioFormat, WavNumChannels, WavSampleRate, BitsPerSample>>
wavData == <<DataChunkPos, DataSize, DataStart>>
wavPcm == <<NumSamples, PCMDataSize16bit, PCMData16bit, normWritten, normRead>>
wavFinal == <<FinalNumSamples, FinalPCMData>>
wavOut == <<SoundWave, error>>

wavVars == <<call, DecodedData, wavFmt, wavData, FinalSampleRate, wavPcm, wavFinal,
             wavOut, maxRead>>

vars == <<pc, genVars, wavVars>>

GenLocalsInit ==
    /\ NumChannels = 0 /\ SampleRate = 0 /\ PCMDataSize = 0
    /\ ChunkSizeSamples = 0 /\ ChunkSize = 0
    /\ samples = <<>>
    /\ Visemes = -1 /\ LaughterScore = 0 /\ FrameDelayInMs = 0
    /\ FrameOffset = 0 /\ offs = 0
    /\ Sequence = <<>>
    /\ calls = 0
    /\ lastFed = <<>>
    /\ lastRead = {}
    /\ primeDelay = 0

WavLocalsInit ==
    /\ DecodedData = <<>>
    /\ FmtChunkPos = 0 /\ AudioFormat = 0 /\ WavNumChannels = 0
    /\ WavSampleRate = 0 /\ BitsPerSample = 0
    /\ DataChunkPos = 0 /\ DataSize = <<0, 0>> /\ DataStart = 0
    /\ FinalSampleRate = 0
    /\ NumSamples = 0 /\ PCMDataSize16bit = 0 /\ PCMData16bit = <<>>
    /\ normWritten = 0 /\ normRead = 0
    /\ FinalNumSamples = 0 /\ FinalPCMData = <<>>
    /\ SoundWave = NullWave
    /\ error = ""
    /\ maxRead = -1

\* a call of GenerateLipSyncSequenceRuntime with a sound wave from the set
GenInitOf(waves) ==
    /\ pc = "Gen_Entry"
    /\ sw \in waves
    /\ GenLocalsInit
    /\ call = NoCall
    /\ WavLocalsInit

GenInit == GenInitOf(SoundWaves)

\* a call of Base64ToSoundWave with arguments from the set given
WavInitOf(callSet) ==
    /\ pc = "Wav_Entry"
    /\ call \in callSet
    /\ WavLocalsInit
    /\ sw = NullWave
    /\ GenLocalsInit

WavInit == WavInitOf(WavCalls)

\* the input checks and the set-up of the locals
GenCheckInput ==
    /\ pc = "Gen_Entry"
    /\ UNCHANGED wavVars
    /\ IF \/ sw.isNull
          \/ sw.NumChannels > 2
          \/ ~DecompressSoundWave(sw)
          \/ ~sw.RawPCMData
          \/ sw.RawPCMDataSize <= 0
       THEN /\ pc' = "Gen_Null"
            /\ UNCHANGED genVars
       ELSE /\ pc' = "Gen_Prime"
            /\ NumChannels' = sw.NumChannels
            /\ SampleRate' = sw.SampleRate
            /\ PCMDataSize' = sw.RawPCMDataSize \div 2
            /\ ChunkSizeSamples' = ChunkSizeSamplesOf(sw.SampleRate)
            /\ ChunkSize' = sw.NumChannels * ChunkSizeSamplesOf(sw.SampleRate)
            /\ UNCHANGED <<sw, samples, Visemes, LaughterScore, FrameDelayInMs,
                           FrameOffset, offs, Sequence, calls, lastFed, lastRead,
                           primeDelay>>

\* the silence priming call and the frame offset computed from its delay.
\* An engine that is asked for more samples than the chunk holds reads
\* outside it: the program stops there or goes on.
GenPrime ==
    /\ pc = "Gen_Prime"
    /\ UNCHANGED wavVars
    /\ \E d \in Delays :
         /\ samples' = Zeroed(ChunkSize)
         /\ lastFed' = ScratchChunk(samples', EngineSamples(ChunkSizeSamples, NumChannels))
         /\ lastRead' = {}
         /\ Visemes' = calls
         /\ LaughterScore' = calls
         /\ FrameDelayInMs' = d
         /\ primeDelay' = d
         /\ calls' = calls + 1
         /\ FrameOffset' = FrameOffsetOf(d, SampleRate, NumChannels)
    /\ offs' = 0
    /\ pc' \in IF EngineSamples(ChunkSizeSamples, NumChannels) > ChunkSize
               THEN {"Gen_Loop", "Gen_Crash"} ELSE {"Gen_Loop"}
    /\ UNCHANGED <<sw, NumChannels, SampleRate, PCMDataSize, ChunkSizeSamples,
                   ChunkSize, Sequence>>

\* one iteration of the windowing loop
GenLoopBody ==
    /\ pc = "Gen_Loop"
    /\ UNCHANGED wavVars
    /\ LoopCond(offs, PCMDataSize, FrameOffset)
    /\ calls < MaxCalls
    /\ LET remainingSamples == PCMDataSize - offs
           asked == EngineSamples(ChunkSizeSamples, NumChannels)
       IN  IF remainingSamples >= ChunkSize
           THEN /\ lastFed' = DirectChunk(offs, asked, PCMDataSize)
                /\ lastRead' = offs .. (offs + asked - 1)
                /\ UNCHANGED samples
                /\ pc' \in IF offs + asked > PCMDataSize
                           THEN {"Gen_Loop", "Gen_Crash"} ELSE {"Gen_Loop"}
           ELSE /\ samples' = TailChunk(samples, offs, remainingSamples, ChunkSize,
                                        PCMDataSize)
                /\ lastFed' = ScratchChunk(samples', asked)
                /\ lastRead' = offs .. (offs + remainingSamples - 1)
                /\ pc' \in IF asked > ChunkSize
                           THEN {"Gen_Loop", "Gen_Crash"} ELSE {"Gen_Loop"}
    /\ \E d \in Delays : FrameDelayInMs' = d
    /\ Visemes' = calls
    /\ LaughterScore' = calls
    /\ calls' = calls + 1
    /\ IF Accepts(offs, FrameOffset)
       THEN Sequence' = Append(Sequence, <<Visemes', LaughterScore'>>)
       ELSE UNCHANGED Sequence
    /\ offs' = offs + ChunkSize
    /\ UNCHANGED <<sw, NumChannels, SampleRate, PCMDataSize, ChunkSizeSamples,
                   ChunkSize, FrameOffset, primeDelay>>

\* the loop condition fails: the sequence is returned
GenReturn ==
    /\ pc = "Gen_Loop"
    /\ UNCHANGED wavVars
    /\ ~LoopCond(offs, PCMDataSize, FrameOffset)
    /\ pc' = "Gen_Done"
    /\ UNCHANGED genVars

(***************************************************************************)
(* Base64ToSoundWave.                                                      *)
(***************************************************************************)
\* UE_LOG(Error) and return nullptr
WavFail(e) ==
    /\ pc' = "Wav_Null"
    /\ error' = e
    /\ SoundWave' = NullWave

\* the argument check and FBase64::Decode
WavDecode ==
    /\ pc = "Wav_Entry"
    /\ UNCHANGED <<genVars, call, wavFmt, wavData, FinalSampleRate, wavPcm, wavFinal,
                   maxRead>>
    /\ IF call.IsEmpty
       THEN WavFail("EmptyString") /\ UNCHANGED DecodedData
       ELSE IF ~call.Decodes
       THEN WavFail("DecodeFailed") /\ UNCHANGED DecodedData
       ELSE /\ DecodedData' = call.Bytes
            /\ IF Len(call.Bytes) = 0
               THEN WavFail("DecodedEmpty")
               ELSE pc' = "Wav_Header" /\ UNCHANGED wavOut

\* the size check and the RIFF and WAVE tags
WavHeader ==
    /\ pc = "Wav_Header"
    /\ UNCHANGED <<genVars, call, DecodedData, wavFmt, wavData, FinalSampleRate,
                   wavPcm, wavFinal>>
    /\ IF Len(DecodedData) < 44
       THEN WavFail("TooSmall") /\ UNCHANGED maxRead
       ELSE IF SubSeq(DecodedData, 1, 4) # TagRIFF
       THEN WavFail("NoRIFF") /\ maxRead' = 3
       ELSE IF SubSeq(DecodedData, 9, 12) # TagWAVE
       THEN WavFail("NoWAVE") /\ maxRead' = 11
       ELSE pc' = "Wav_FindFmt" /\ maxRead' = 11 /\ UNCHANGED wavOut

\* the scan for the fmt chunk
WavFindFmt ==
    /\ pc = "Wav_FindFmt"
    /\ UNCHANGED <<genVars, call, DecodedData, AudioFormat, WavNumChannels,
                   WavSampleRate, BitsPerSample, wavData, FinalSampleRate, wavPcm,
                   wavFinal>>
    /\ FmtChunkPos' = ScanFor(DecodedData, TagFmt, 12)
    /\ maxRead' = Max(maxRead, ScanMaxRead(DecodedData, TagFmt, FmtChunkPos'))
    /\ IF FmtChunkPos' >= Len(DecodedData) - 8
       THEN WavFail("FmtNotFound")
       ELSE pc' = "Wav_ReadFmt" /\ UNCHANGED wavOut

\* the four fmt fields and their validation.  A field byte at or past the end
\* of the buffer is a read outside DecodedData: TArray's range check stops
\* the program in builds that have it, otherwise the read returns whatever
\* lies behind the buffer.
WavReadFmt ==
    /\ pc = "Wav_ReadFmt"
    /\ UNCHANGED <<genVars, call, DecodedData, FmtChunkPos, wavData, FinalSampleRate,
                   wavPcm, wavFinal>>
    /\ maxRead' = Max(maxRead, FmtChunkPos + 23)
    /\ LET outside == {i \in FmtFieldIdx(FmtChunkPos) : i >= Len(DecodedData)}
       IN  \/ /\ outside # {}
              /\ pc' = "Wav_Crash"
              /\ UNCHANGED <<AudioFormat, WavNumChannels, WavSampleRate,
                             BitsPerSample, wavOut>>
           \/ \E g \in [outside -> GarbageBytes] :
                LET B(i) == IF i < Len(DecodedData) THEN ByteAt(DecodedData, i) ELSE g[i]
                    p == FmtChunkPos
                IN  /\ AudioFormat' = B(p + 8) + 256 * B(p + 9)
                    /\ WavNumChannels' = B(p + 10) + 256 * B(p + 11)
                    /\ WavSampleRate' = B(p + 12) + 256 * B(p + 13) + 65536 * B(p + 14)
                                          + 16777216 * B(p + 15)
                    /\ BitsPerSample' = B(p + 22) + 256 * B(p + 23)
                    /\ IF AudioFormat' # 1
                       THEN WavFail("NotPCM")
                       ELSE IF BitsPerSample' \notin {8, 16, 24, 32}
                       THEN WavFail("BadBits")
                       ELSE pc' = "Wav_FindData" /\ UNCHANGED wavOut

\* the scan for the data chunk
WavFindData ==
    /\ pc = "Wav_FindData"
    /\ UNCHANGED <<genVars, call, DecodedData, wavFmt, DataSize, DataStart,
                   FinalSampleRate, wavPcm, wavFinal>>
    /\ DataChunkPos' = ScanFor(DecodedData, TagData, 12)
    /\ maxRead' = Max(maxRead, ScanMaxRead(DecodedData, TagData, DataChunkPos'))
    /\ IF DataChunkPos' >= Len(DecodedData) - 8
       THEN WavFail("DataNotFound")
       ELSE pc' = "Wav_ReadData" /\ UNCHANGED wavOut

\* the data chunk's size field and the check against the buffer size
WavReadData ==
    /\ pc = "Wav_ReadData"
    /\ UNCHANGED <<genVars, call, DecodedData, wavFmt, DataChunkPos, FinalSampleRate,
                   wavPcm, wavFinal>>
    /\ DataSize' = U32At(DecodedData, DataChunkPos + 4)
    /\ DataStart' = DataChunkPos + 8
    /\ maxRead' = Max(maxRead, DataChunkPos + 7)
    /\ IF DataExceedsBuffer(DataStart', DataSize', Len(DecodedData))
       THEN WavFail("DataExceedsBuffer")
       ELSE pc' = "Wav_TargetRate" /\ UNCHANGED wavOut

\* the final sample rate (NewObject is taken to succeed).  With
\* WavNumChannels = 0 the division by 16 * WavNumChannels is a division by
\* zero, which stops the program.
WavTargetRate ==
    /\ pc = "Wav_TargetRate"
    /\ UNCHANGED <<genVars, call, DecodedData, wavFmt, wavData, wavPcm, wavFinal,
                   wavOut, maxRead>>
    /\ IF call.TargetBitrate > 0
       THEN IF 16 * WavNumChannels = 0
            THEN pc' = "Wav_Crash" /\ UNCHANGED FinalSampleRate
            ELSE /\ FinalSampleRate' = call.TargetBitrate \div (16 * WavNumChannels)
                 /\ pc' = "Wav_Normalize"
       ELSE /\ FinalSampleRate' = IF call.TargetSampleRate > 0
                                  THEN call.TargetSampleRate ELSE WavSampleRate
            /\ pc' = "Wav_Normalize"

\* the conversion to 16-bit samples.  A DataSize that passed the size check
\* by wrap-around (DataStart + DataSize >= 2^32) makes the allocation or the
\* copy run far outside the buffer, which stops the program.  A copy that
\* writes past the end of the PCMData16bit allocation corrupts the heap: the
\* program stops there or goes on.
WavNormalize ==
    /\ pc = "Wav_Normalize"
    /\ UNCHANGED <<genVars, call, DecodedData, wavFmt, wavData, FinalSampleRate,
                   wavFinal, wavOut, maxRead>>
    /\ IF SumExceeds(DataStart, DataSize, Len(DecodedData))
       THEN pc' = "Wav_Crash" /\ UNCHANGED wavPcm
       ELSE LET BytesPerSample == BitsPerSample \div 8
                n == U32ToInt(DataSize) \div BytesPerSample
            IN  /\ NumSamples' = n
                /\ PCMDataSize16bit' = n * 2
                /\ PCMData16bit' = Normalized(DecodedData, DataStart, BitsPerSample, n)
                /\ normWritten' = NormalizeWritten(BitsPerSample, U32ToInt(DataSize), n)
                /\ normRead' = NormalizeRead(BitsPerSample, U32ToInt(DataSize), n)
                /\ pc' \in IF normWritten' > PCMDataSize16bit'
                           THEN {"Wav_Resample", "Wav_Crash"} ELSE {"Wav_Resample"}

\* the optional resampling.  With WavNumChannels = 0 ResampleAudio divides
\* SourceSamples by zero, which stops the program.
WavResample ==
    /\ pc = "Wav_Resample"
    /\ UNCHANGED <<genVars, call, DecodedData, wavFmt, wavData, FinalSampleRate,
                   wavPcm, wavOut, maxRead>>
    /\ IF FinalSampleRate # WavSampleRate
       THEN IF WavNumChannels = 0
            THEN pc' = "Wav_Crash" /\ UNCHANGED wavFinal
            ELSE /\ FinalPCMData' = ResampleAudio(PCMData16bit, NumSamples, WavSampleRate,
                                                  FinalSampleRate, WavNumChannels)
                 /\ FinalNumSamples' = Len(FinalPCMData')
                 /\ pc' = "Wav_SetUp"
       ELSE /\ FinalPCMData' = PCMData16bit
            /\ FinalNumSamples' = NumSamples
            /\ pc' = "Wav_SetUp"

\* the properties of the sound wave; it is returned.  Duration is kept as
\* the operands <<FinalNumSamples, WavNumChannels, FinalSampleRate>> of
\* (float)FinalNumSamples / (WavNumChannels * FinalSampleRate).
WavSetUp ==
    /\ pc = "Wav_SetUp"
    /\ UNCHANGED <<genVars, call, DecodedData, wavFmt, wavData, FinalSampleRate,
                   wavPcm, wavFinal, error, maxRead>>
    /\ SoundWave' = [isNull |-> FALSE,
                     SampleRate |-> FinalSampleRate,
                     NumChannels |-> WavNumChannels,
                     Duration |-> <<FinalNumSamples, WavNumChannels, FinalSampleRate>>,
                     RawPCMDataSize |-> FinalNumSamples * 2,
                     RawPCMData |-> FinalPCMData]
    /\ pc' = "Wav_Done"

Init == GenInit \/ WavInit

GenNext == GenCheckInput \/ GenPrime \/ GenLoopBody \/ GenReturn

WavNext ==
    \/ WavDecode \/ WavHeader \/ WavFindFmt \/ WavReadFmt \/ WavFindData
    \/ WavReadData \/ WavTargetRate \/ WavNormalize \/ WavResample \/ WavSetUp

Next == GenNext \/ WavNext

\* calls of either function, with any of the inputs
Spec == Init /\ [][Next]_vars

\* calls of GenerateLipSyncSequenceRuntime with a sound wave of one or more
\* channels (or none at all)
SpecGenWithChannels ==
    GenInitOf({w \in SoundWaves : w.isNull \/ w.NumChannels >= 1}) /\ [][GenNext]_vars

\* calls of Base64ToSoundWave with any of the inputs
SpecWav == WavInit /\ [][WavNext]_vars

\* calls of Base64ToSoundWave with a buffer made of whole chunks
SpecWavStructured == WavInitOf(StructuredCalls) /\ [][WavNext]_vars

\* calls of Base64ToSoundWave with a buffer made of whole chunks whose fmt
\* chunk passes every check of the format
SpecWavAccepted == WavInitOf(AcceptedCalls) /\ [][WavNext]_vars

(***************************************************************************)
(* Properties of GenerateLipSyncSequenceRuntime.                           *)
(***************************************************************************)
GenStarted == pc \in {"Gen_Prime", "Gen_Loop", "Gen_Done"}

\* C1: when the function returns for a PCM buffer of exactly N >= 1 whole
\* chunks, the sequence holds exactly N frames, whatever non-negative delay
\* the priming call reported; and one second of mono 16 kHz audio with a
\* delay of 10 ms gives ChunkSizeSamples = 160, FrameOffset = 160, 101 engine
\* calls inside the loop (102 with the priming call) and 100 frames.
C1_WholeChunksGiveNFrames ==
    pc = "Gen_Done" =>
      /\ (ChunkSize > 0 /\ PCMDataSize >= ChunkSize /\ PCMDataSize % ChunkSize = 0)
            => Len(Sequence) = PCMDataSize \div ChunkSize
      /\ (SampleRate = 16000 /\ NumChannels = 1 /\ PCMDataSize = 16000 /\ primeDelay = 10)
            => /\ ChunkSizeSamples = 160
               /\ FrameOffset = 160
               /\ calls = 102
               /\ Len(Sequence) = 100

C1_Witness ==
    /\ pc = "Gen_Done"
    /\ SampleRate = 16000 /\ NumChannels = 1 /\ PCMDataSize = 16000
    /\ primeDelay = 10 /\ FrameOffset = 160
    /\ calls = 102
    /\ Len(Sequence) = 100

\* C2: the windowing loop always completes: every iteration that stays in
\* the loop moves the offset forward, so the loop condition fails after
\* finitely many engine calls.
C2_LoopAlwaysCompletes ==
    [][(pc = "Gen_Loop" /\ pc' = "Gen_Loop") => offs' > offs]_vars

\* C7 as stated: ChunkSizeSamples is SampleRate / 100 rounded to the nearest
\* integer (221 at 22050 Hz) and ChunkSize = ChunkSizeSamples * NumChannels.
C7_ChunkSizeRounded ==
    GenStarted =>
      /\ ChunkSizeSamples = ChunkSizeSamplesRounded(SampleRate)
      /\ ChunkSize = ChunkSizeSamples * NumChannels

\* C7 as amended: ChunkSizeSamples is SampleRate / 100 truncated toward zero
\* (220 at 22050 Hz, 160 at 16000 Hz, 441 at 44100 Hz, 0 below 100 Hz) and
\* ChunkSize = ChunkSizeSamples * NumChannels.
C7_ChunkSizeTruncated ==
    GenStarted =>
      /\ ChunkSizeSamples = SampleRate \div 100
      /\ ChunkSize = ChunkSizeSamples * NumChannels
      /\ (SampleRate = 22050 => ChunkSizeSamples = 220)
      /\ (SampleRate = 16000 => ChunkSizeSamples = 160)
      /\ (SampleRate = 44100 => ChunkSizeSamples = 441)

C7_Witness ==
    /\ pc = "Gen_Loop"
    /\ SampleRate = 22050
    /\ ChunkSizeSamples = 220
    /\ ChunkSize = 220

\* C9: the k-th engine call of the main loop (k = calls - 2 once it is made)
\* receives exactly ChunkSize samples, PCM[k*ChunkSize .. (k+1)*ChunkSize)
\* with every position at or beyond PCMDataSize zero, and reads exactly the
\* PCM indices of that range that lie inside the buffer; so every PCM sample
\* is fed exactly once, in increasing order: a call made while samples are
\* left feeds the next of them, and when the loop has ended all were fed.
C9_ChunksAreExactSlices ==
    /\ []((pc \in {"Gen_Loop", "Gen_Done"} /\ calls >= 2) =>
            LET k == calls - 2
                o == k * ChunkSize
            IN  /\ offs = o + ChunkSize
                /\ Len(lastFed) = ChunkSize
                /\ \A j \in 1 .. ChunkSize :
                      lastFed[j] = IF o + j - 1 < PCMDataSize
                                   THEN PCMData(o + j - 1, PCMDataSize) ELSE 0
                /\ lastRead = {i \in o .. (o + ChunkSize - 1) : i < PCMDataSize}
                /\ \A i \in lastRead : 0 <= i /\ i < PCMDataSize
                /\ (pc = "Gen_Done" => (k + 1) * ChunkSize >= PCMDataSize))
    /\ [][(pc = "Gen_Loop" /\ calls' = calls + 1 /\ offs < PCMDataSize)
             => offs \in lastRead']_vars

\* the frames of the loop calls made so far whose offset is at or past the
\* frame offset of the priming delay, in call order (loop call k is engine
\* call k+1 and returns the frame <<k+1, k+1>>)
C10_ExpectedSequence ==
    LET fo == FrameOffsetOf(primeDelay, SampleRate, NumChannels)
        made == [n \in 1 .. (calls - 1) |-> <<n, n>>]
        Kept(f) == (f[1] - 1) * ChunkSize >= fo
    IN  SelectSeq(made, Kept)

\* C10: the result of the loop call at offset offs is in the sequence exactly
\* when offs >= FrameOffset, the offset computed once from the priming
\* call's delay (later delays change nothing); the priming call's result is
\* never in it; frames keep the order of their calls and the sequence only
\* grows by appending.
C10_AcceptedFrames ==
    /\ [](pc \in {"Gen_Loop", "Gen_Done"} =>
            /\ FrameOffset = FrameOffsetOf(primeDelay, SampleRate, NumChannels)
            /\ Sequence = C10_ExpectedSequence
            /\ \A i \in 1 .. Len(Sequence) : Sequence[i][1] # 0)
    /\ [][/\ Len(Sequence') >= Len(Sequence)
          /\ SubSeq(Sequence', 1, Len(Sequence)) = Sequence]_vars

\* a finished run whose first loop calls were dropped, with a last reported
\* delay that differs from the priming delay
C10_Witness ==
    /\ pc = "Gen_Done"
    /\ primeDelay = 10
    /\ FrameDelayInMs = 25
    /\ FrameOffset > ChunkSize
    /\ Len(Sequence) >= 2
    /\ Sequence[1][1] > 2

(***************************************************************************)
(* Properties of Base64ToSoundWave.                                        *)
(***************************************************************************)
\* a chunk's declared size; a size of 2^30 or more counts as 2^30
DeclaredSize(buf, pos) ==
    IF ByteAt(buf, pos + 7) >= 64 THEN 1073741824
    ELSE ByteAt(buf, pos + 4) + 256 * ByteAt(buf, pos + 5)
           + 65536 * ByteAt(buf, pos + 6) + 16777216 * ByteAt(buf, pos + 7)

RECURSIVE WalkFind(_, _, _)
\* the chunk walk of the RIFF format: the position of the first chunk with
\* this tag reached from cursor by steps of 8 + declared size, or -1
WalkFind(buf, tag, cursor) ==
    IF cursor + 8 > Len(buf) THEN -1
    ELSE IF TagAt(buf, cursor, tag) THEN cursor
    ELSE WalkFind(buf, tag, cursor + 8 + DeclaredSize(buf, cursor))

RECURSIVE WalkEnds(_, _)
\* the chunks from cursor on fill the buffer exactly
WalkEnds(buf, cursor) ==
    IF cursor = Len(buf) THEN TRUE
    ELSE IF cursor + 8 > Len(buf) THEN FALSE
    ELSE WalkEnds(buf, cursor + 8 + DeclaredSize(buf, cursor))

\* a RIFF/WAVE buffer made of whole chunks, with a fmt chunk of at least 16
\* bytes and a data chunk after it
IsValidWav(buf) ==
    /\ Len(buf) >= 44
    /\ SubSeq(buf, 1, 4) = TagRIFF
    /\ SubSeq(buf, 9, 12) = TagWAVE
    /\ WalkEnds(buf, 12)
    /\ WalkFind(buf, TagFmt, 12) >= 12
    /\ DeclaredSize(buf, WalkFind(buf, TagFmt, 12)) >= 16
    /\ WalkFind(buf, TagData, 12) > WalkFind(buf, TagFmt, 12)

WavPastDataScan ==
    pc \in {"Wav_ReadData", "Wav_TargetRate", "Wav_Normalize", "Wav_Resample",
            "Wav_SetUp", "Wav_Done"}

WavPastSizeCheck ==
    pc \in {"Wav_TargetRate", "Wav_Normalize", "Wav_Resample", "Wav_SetUp", "Wav_Done"}

\* C3: for a valid WAV buffer the fmt and data chunks the parser uses are
\* the chunks reached by the chunk walk from offset 12 (steps of 8 + declared
\* size), whatever lies in the payloads of the chunks before them.
C3_UsesWalkedChunks ==
    (WavPastDataScan /\ IsValidWav(DecodedData)) =>
       /\ FmtChunkPos = WalkFind(DecodedData, TagFmt, 12)
       /\ DataChunkPos = WalkFind(DecodedData, TagData, 12)

\* C4: every index of DecodedData the parser reads is below the buffer
\* length.
C4_ReadsInsideBuffer == maxRead < Len(DecodedData)

\* C5: whenever parsing goes on past the size check, DataStart + DataSize,
\* as a sum of integers, is at most the buffer length.
C5_DataInsideBuffer ==
    WavPastSizeCheck => ~SumExceeds(DataStart, DataSize, Len(DecodedData))

\* C6: a channel count other than 1 or 2 is rejected: parsing does not go on
\* to the rate, normalization and duration computations with it, and no
\* sound wave with such a channel count is returned.
C6_ChannelCountChecked ==
    /\ WavPastSizeCheck => WavNumChannels \in {1, 2}
    /\ pc = "Wav_Done" => SoundWave.NumChannels \in {1, 2}

\* C8: the number of 16-bit samples of every returned sound wave is a
\* multiple of its channel count.
C8_SamplesMultipleOfChannels ==
    pc = "Wav_Done" =>
       LET n == SoundWave.RawPCMDataSize \div 2
       IN  \E m \in 0 .. n : n = m * SoundWave.NumChannels

WavPastNormalize == pc \in {"Wav_Resample", "Wav_SetUp", "Wav_Done"}

\* C11: for every accepted bit depth and every data-chunk length the
\* normalization step writes only inside the PCMData16bit allocation of
\* NumSamples * 2 bytes (NumSamples = DataSize / BytesPerSample) and reads
\* only source bytes inside the data chunk.
C11_NormalizeInsideBuffers ==
    WavPastNormalize =>
       /\ NumSamples = U32ToInt(DataSize) \div (BitsPerSample \div 8)
       /\ PCMDataSize16bit = NumSamples * 2
       /\ normWritten <= PCMDataSize16bit
       /\ normRead <= U32ToInt(DataSize)
       /\ DataStart + normRead <= Len(DecodedData)

====
